---- MODULE Spec2Model ----
(***************************************************************************)
(* Model of mt_parser.py: MTMessageParser and its four subclasses          *)
(* MT103Parser, MT202Parser, MT940Parser and MT900910Parser.               *)
(*                                                                         *)
(* A Python str is a sequence of one-character strings.  A Python dict is  *)
(* a sequence of [key, value] records with pairwise distinct keys, in      *)
(* insertion order.  A value returned by a method is a record              *)
(* [kind, str, mant, exp]: kind "None", "str" (the text in str), "float"   *)
(* (mant * 10^exp, normalised), "inf", "nan", or "raise" when the call     *)
(* ends with an exception.                                                 *)
(***************************************************************************)
EXTENDS Integers, Sequences, FiniteSets, TLC

(***************************************************************************)
(* Python str primitives                                                   *)
(***************************************************************************)

\* The whitespace str.strip() removes, as far as the texts here hold any.
Whitespace == {" ", "\t", "\n"}

Digits == <<"0", "1", "2", "3", "4", "5", "6", "7", "8", "9">>

UpperLetters ==
    <<"A", "B", "C", "D", "E", "F", "G", "H", "I", "J", "K", "L", "M",
      "N", "O", "P", "Q", "R", "S", "T", "U", "V", "W", "X", "Y", "Z">>

LowerLetters ==
    <<"a", "b", "c", "d", "e", "f", "g", "h", "i", "j", "k", "l", "m",
      "n", "o", "p", "q", "r", "s", "t", "u", "v", "w", "x", "y", "z">>

IsDigit(c) == \E i \in 1..Len(Digits) : Digits[i] = c

DigitVal(c) == (CHOOSE i \in 1..Len(Digits) : Digits[i] = c) - 1

IsUpper(c) == \E i \in 1..Len(UpperLetters) : UpperLetters[i] = c

\* str.lower for one character
lower(c) ==
    IF IsUpper(c)
    THEN LowerLetters[CHOOSE i \in 1..Len(UpperLetters) : UpperLetters[i] = c]
    ELSE c

lowerStr(s) == [i \in 1..Len(s) |-> lower(s[i])]

\* s[n:] of Python, n >= 0: the text from index n on, empty when n >= len(s).
SliceFrom(s, n) == IF n >= Len(s) THEN <<>> ELSE SubSeq(s, n + 1, Len(s))

\* str.strip(): leading and trailing whitespace removed.
strip(s) ==
    LET keep == {i \in 1..Len(s) : s[i] \notin Whitespace}
    IN  IF keep = {} THEN <<>>
        ELSE LET lo == CHOOSE i \in keep : \A j \in keep : i <= j
                 hi == CHOOSE i \in keep : \A j \in keep : i >= j
             IN  SubSeq(s, lo, hi)

\* `c in s` for a one-character c
Contains(s, c) == \E i \in 1..Len(s) : s[i] = c

\* the position (1-based) of the first c in s; only used when Contains(s, c)
FirstIndex(s, c) ==
    CHOOSE i \in 1..Len(s) : s[i] = c /\ \A j \in 1..(i - 1) : s[j] # c

\* str.split(sep): the pieces between the separators, Count(sep) + 1 of them.
RECURSIVE split(_, _)
split(s, sep) ==
    IF ~Contains(s, sep) THEN <<s>>
    ELSE LET i == FirstIndex(s, sep)
         IN  <<SubSeq(s, 1, i - 1)>> \o split(SliceFrom(s, i), sep)

\* str.split(sep, 1) on a string that holds sep: the text before the first
\* sep and everything after it.
split1(s, sep) ==
    LET i == FirstIndex(s, sep)
    IN  <<SubSeq(s, 1, i - 1), SliceFrom(s, i)>>

\* str.replace(old, new) for one-character old and new
replace(s, old, new) == [i \in 1..Len(s) |-> IF s[i] = old THEN new ELSE s[i]]

(***************************************************************************)
(* Returned values                                                         *)
(***************************************************************************)

None == [kind |-> "None", str |-> <<>>, mant |-> 0, exp |-> 0]

Str(s) == [kind |-> "str", str |-> s, mant |-> 0, exp |-> 0]

Raised == [kind |-> "raise", str |-> <<>>, mant |-> 0, exp |-> 0]

ValueError == [kind |-> "ValueError", str |-> <<>>, mant |-> 0, exp |-> 0]

\* The float m * 10^e, with trailing zeros of m moved into e, and zero as 0e0.
\* The literals read here have far fewer than 15 significant digits and small
\* exponents, so a double is identified by the decimal it was read from.
RECURSIVE Float(_, _)
Float(m, e) ==
    IF m = 0 THEN [kind |-> "float", str |-> <<>>, mant |-> 0, exp |-> 0]
    ELSE IF m % 10 = 0 THEN Float(m \div 10, e + 1)
    ELSE [kind |-> "float", str |-> <<>>, mant |-> m, exp |-> e]

Inf(sign) == [kind |-> "inf", str |-> <<>>, mant |-> sign, exp |-> 0]

NaN == [kind |-> "nan", str |-> <<>>, mant |-> 0, exp |-> 0]

(***************************************************************************)
(* float(str)                                                              *)
(***************************************************************************)

AllDigits(s) == \A i \in 1..Len(s) : IsDigit(s[i])

\* The number a run of digits denotes (0 for the empty run).
RECURSIVE ToInt(_)
ToInt(s) ==
    IF s = <<>> THEN 0
    ELSE 10 * ToInt(SubSeq(s, 1, Len(s) - 1)) + DigitVal(s[Len(s)])

\* An underscore is accepted only between two digits.
UnderscoresOk(s) ==
    \A i \in 1..Len(s) :
        s[i] = "_" => /\ i > 1 /\ i < Len(s)
                      /\ IsDigit(s[i - 1]) /\ IsDigit(s[i + 1])

RemoveUnderscores(s) == SelectSeq(s, LAMBDA c : c # "_")

HasSign(s) == s # <<>> /\ s[1] \in {"+", "-"}

\* The exponent part after 'e': an optional sign and at least one digit.
IsExponent(s) ==
    LET d == IF HasSign(s) THEN Tail(s) ELSE s
    IN  d # <<>> /\ AllDigits(d)

ExponentVal(s) ==
    IF HasSign(s)
    THEN (IF s[1] = "-" THEN -1 ELSE 1) * ToInt(Tail(s))
    ELSE ToInt(s)

\* The mantissa: digits with at most one '.', and at least one digit.
IsMantissa(s) ==
    IF Contains(s, ".")
    THEN LET p == split1(s, ".")
         IN  AllDigits(p[1]) /\ AllDigits(p[2]) /\ Len(p[1]) + Len(p[2]) > 0
    ELSE s # <<>> /\ AllDigits(s)

\* an unsigned decimal literal, lower-cased, without underscores
IsDecimal(s) ==
    IF Contains(s, "e")
    THEN LET p == split1(s, "e") IN IsMantissa(p[1]) /\ IsExponent(p[2])
    ELSE IsMantissa(s)

DecimalVal(s, sign) ==
    LET hasE == Contains(s, "e")
        m    == IF hasE THEN split1(s, "e")[1] ELSE s
        x    == IF hasE THEN ExponentVal(split1(s, "e")[2]) ELSE 0
        ip   == IF Contains(m, ".") THEN split1(m, ".")[1] ELSE m
        fp   == IF Contains(m, ".") THEN split1(m, ".")[2] ELSE <<>>
    IN  Float(sign * ToInt(ip \o fp), x - Len(fp))

\* float(s): the parsed number, or ValueError.
float(s) ==
    LET t    == strip(s)
        u    == lowerStr(RemoveUnderscores(t))
        sign == IF HasSign(u) /\ u[1] = "-" THEN -1 ELSE 1
        body == IF HasSign(u) THEN Tail(u) ELSE u
    IN  IF ~UnderscoresOk(t) THEN ValueError
        ELSE IF body \in {<<"i", "n", "f">>,
                          <<"i", "n", "f", "i", "n", "i", "t", "y">>}
             THEN Inf(sign)
        ELSE IF body = <<"n", "a", "n">> THEN NaN
        ELSE IF IsDecimal(body) THEN DecimalVal(body, sign)
        ELSE ValueError

IsNumber(r) == r.kind \in {"float", "inf", "nan"}

(***************************************************************************)
(* dict                                                                    *)
(***************************************************************************)

HasKey(d, k) == \E i \in 1..Len(d) : d[i].key = k

\* dict.setdefault(k, v) in place of d[k] = v: an old key keeps its value
dict_setitem_KeepFirst(d, k, v) ==
    IF HasKey(d, k) THEN d ELSE Append(d, [key |-> k, value |-> v])

\* d[k] = v: a new key is appended, an old key keeps its place.
dict_setitem(d, k, v) ==
    IF HasKey(d, k)
    THEN [i \in 1..Len(d) |-> IF d[i].key = k THEN [key |-> k, value |-> v]
                                                ELSE d[i]]
    ELSE Append(d, [key |-> k, value |-> v])

\* d.get(k): the value, or None
dict_get(d, k) ==
    IF HasKey(d, k)
    THEN Str(d[CHOOSE i \in 1..Len(d) : d[i].key = k].value)
    ELSE None

(***************************************************************************)
(* MTMessageParser                                                         *)
(***************************************************************************)

\* the list `pairs` of parse_message: the segments that are not blank
pairs(message) == SelectSeq(split(message, ";"), LAMBDA pair : strip(pair) # <<>>)

\* StoreSegment with the key stored as written, not stripped
StoreSegment_KeyNotStripped(result, pair) ==
    IF Contains(pair, ":")
    THEN LET kv == split1(pair, ":")
         IN  dict_setitem(result, kv[1], strip(kv[2]))
    ELSE result

\* one turn of the loop of parse_message
StoreSegment(result, pair) ==
    IF Contains(pair, ":")
    THEN LET kv == split1(pair, ":")
         IN  dict_setitem(result, strip(kv[1]), strip(kv[2]))
    ELSE result

RECURSIVE StoreAll(_, _)
StoreAll(result, ps) ==
    IF ps = <<>> THEN result
    ELSE StoreAll(StoreSegment(result, Head(ps)), Tail(ps))

parse_message(message) == StoreAll(<<>>, pairs(message))

\* get_field: self.fields.get(field)
get_field(self_fields, field) == dict_get(self_fields, field)

\* `if value:` for a value that is None or a str
Truthy(value) == value.kind = "str" /\ value.str # <<>>

Tag20 == <<"2", "0">>
Tag21 == <<"2", "1">>
Tag32A == <<"3", "2", "A">>
Tag58A == <<"5", "8", "A">>
Tag25 == <<"2", "5">>
Tag28C == <<"2", "8", "C">>
Tag60F == <<"6", "0", "F">>
Tag62F == <<"6", "2", "F">>
Tag61 == <<"6", "1">>

(***************************************************************************)
(* MT103Parser                                                             *)
(***************************************************************************)

MT103Parser_get_transaction_reference(self_fields) == get_field(self_fields, Tag20)

\* get_amount without its except clause: the ValueError of float() escapes
MT103Parser_get_amount_ErrorEscapes(self_fields) ==
    LET value == get_field(self_fields, Tag32A)
    IN  IF Truthy(value)
        THEN LET parts == replace(SliceFrom(value.str, 6), ",", ".")
                 r     == float(parts)
             IN  IF r = ValueError THEN Raised ELSE r
        ELSE None

MT103Parser_get_amount(self_fields) ==
    LET value == get_field(self_fields, Tag32A)
    IN  IF Truthy(value)
        THEN LET parts == replace(SliceFrom(value.str, 6), ",", ".")
                 r     == float(parts)
             IN  IF r = ValueError THEN None ELSE r
        ELSE None

(***************************************************************************)
(* MT202Parser                                                             *)
(***************************************************************************)

MT202Parser_get_transaction_reference(self_fields) == get_field(self_fields, Tag20)

MT202Parser_get_related_reference(self_fields) == get_field(self_fields, Tag21)

\* get_amount without `if value:`: slicing None raises TypeError
MT202Parser_get_amount_NoGuard(self_fields) ==
    LET value == get_field(self_fields, Tag32A)
    IN  IF value = None THEN Raised
        ELSE LET parts == replace(SliceFrom(value.str, 6), ",", ".")
                 r     == float(parts)
             IN  IF r = ValueError THEN None ELSE r

MT202Parser_get_amount(self_fields) ==
    LET value == get_field(self_fields, Tag32A)
    IN  IF Truthy(value)
        THEN LET parts == replace(SliceFrom(value.str, 6), ",", ".")
                 r     == float(parts)
             IN  IF r = ValueError THEN None ELSE r
        ELSE None

MT202Parser_get_beneficiary_institution(self_fields) == get_field(self_fields, Tag58A)

(***************************************************************************)
(* MT940Parser                                                             *)
(***************************************************************************)

MT940Parser_get_account_id(self_fields) == get_field(self_fields, Tag25)

MT940Parser_get_statement_number(self_fields) == get_field(self_fields, Tag28C)

MT940Parser_get_opening_balance(self_fields) == get_field(self_fields, Tag60F)

\* get_closing_balance reading the tag of the opening balance
MT940Parser_get_closing_balance_Reads60F(self_fields) == get_field(self_fields, Tag60F)

MT940Parser_get_closing_balance(self_fields) == get_field(self_fields, Tag62F)

(***************************************************************************)
(* MT900910Parser                                                          *)
(***************************************************************************)

MT900910Parser_get_amount(self_fields) ==
    LET value == get_field(self_fields, Tag32A)
    IN  IF Truthy(value)
        THEN LET parts == replace(SliceFrom(value.str, 6), ",", ".")
                 r     == float(parts)
             IN  IF r = ValueError THEN None ELSE r
        ELSE None

\* get_debit_credit_advice that validates the sign and gives None without one
MT900910Parser_get_debit_credit_advice_Validated(self_fields) ==
    LET value == get_field(self_fields, Tag61)
    IN  IF Truthy(value) /\ value.str[1] \in {"C", "D"} THEN value ELSE None

MT900910Parser_get_debit_credit_advice(self_fields) == get_field(self_fields, Tag61)

(***************************************************************************)
(* State: the parser objects, and the last call made with what it returned *)
(***************************************************************************)

VARIABLES
    cls,        \* cls[o]: the class of parser object o
    message,    \* message[o]: self.message
    fields,     \* fields[o]: self.fields
    call        \* the last method call: [obj, method, arg, ret]

vars == <<cls, message, fields, call>>

Classes == {"MT103Parser", "MT202Parser", "MT940Parser", "MT900910Parser"}

NoCall == [obj |-> "none", method |-> "none", arg |-> <<>>, ret |-> None]

\* __init__ of every object of objs: a class of classes on a message of msgs
Construct(objs, msgs, classes) ==
    /\ cls \in [objs -> classes]
    /\ message \in [objs -> msgs]
    /\ fields = [o \in objs |-> parse_message(message[o])]
    /\ call = NoCall

\* A method call on object self that returns ret; no method assigns to self.
Return(self, method, arg, ret) ==
    /\ call' = [obj |-> self, method |-> method, arg |-> arg, ret |-> ret]
    /\ UNCHANGED <<cls, message, fields>>

Call_get_field(args) ==
    \E self \in DOMAIN cls, field \in args :
        Return(self, "get_field", field, get_field(fields[self], field))

Call_MT103Parser_get_transaction_reference ==
    \E self \in DOMAIN cls :
        /\ cls[self] = "MT103Parser"
        /\ Return(self, "get_transaction_reference", <<>>,
                  MT103Parser_get_transaction_reference(fields[self]))

Call_MT103Parser_get_amount ==
    \E self \in DOMAIN cls :
        /\ cls[self] = "MT103Parser"
        /\ Return(self, "get_amount", <<>>, MT103Parser_get_amount(fields[self]))

Call_MT202Parser_get_transaction_reference ==
    \E self \in DOMAIN cls :
        /\ cls[self] = "MT202Parser"
        /\ Return(self, "get_transaction_reference", <<>>,
                  MT202Parser_get_transaction_reference(fields[self]))

Call_MT202Parser_get_related_reference ==
    \E self \in DOMAIN cls :
        /\ cls[self] = "MT202Parser"
        /\ Return(self, "get_related_reference", <<>>,
                  MT202Parser_get_related_reference(fields[self]))

Call_MT202Parser_get_amount ==
    \E self \in DOMAIN cls :
        /\ cls[self] = "MT202Parser"
        /\ Return(self, "get_amount", <<>>, MT202Parser_get_amount(fields[self]))

Call_MT202Parser_get_beneficiary_institution ==
    \E self \in DOMAIN cls :
        /\ cls[self] = "MT202Parser"
        /\ Return(self, "get_beneficiary_institution", <<>>,
                  MT202Parser_get_beneficiary_institution(fields[self]))

Call_MT940Parser_get_account_id ==
    \E self \in DOMAIN cls :
        /\ cls[self] = "MT940Parser"
        /\ Return(self, "get_account_id", <<>>, MT940Parser_get_account_id(fields[self]))

Call_MT940Parser_get_statement_number ==
    \E self \in DOMAIN cls :
        /\ cls[self] = "MT940Parser"
        /\ Return(self, "get_statement_number", <<>>,
                  MT940Parser_get_statement_number(fields[self]))

Call_MT940Parser_get_opening_balance ==
    \E self \in DOMAIN cls :
        /\ cls[self] = "MT940Parser"
        /\ Return(self, "get_opening_balance", <<>>,
                  MT940Parser_get_opening_balance(fields[self]))

Call_MT940Parser_get_closing_balance ==
    \E self \in DOMAIN cls :
        /\ cls[self] = "MT940Parser"
        /\ Return(self, "get_closing_balance", <<>>,
                  MT940Parser_get_closing_balance(fields[self]))

\* the fields without key k
dict_without(d, k) == SelectSeq(d, LAMBDA e : e.key # k)

\* get_amount reading its value with self.fields.pop('32A', None)
Call_MT900910Parser_get_amount_Pops ==
    \E self \in DOMAIN cls :
        /\ cls[self] = "MT900910Parser"
        /\ call' = [obj |-> self, method |-> "get_amount", arg |-> <<>>,
                    ret |-> MT900910Parser_get_amount(fields[self])]
        /\ fields' = [fields EXCEPT ![self] = dict_without(@, Tag32A)]
        /\ UNCHANGED <<cls, message>>

Call_MT900910Parser_get_amount ==
    \E self \in DOMAIN cls :
        /\ cls[self] = "MT900910Parser"
        /\ Return(self, "get_amount", <<>>, MT900910Parser_get_amount(fields[self]))

Call_MT900910Parser_get_debit_credit_advice ==
    \E self \in DOMAIN cls :
        /\ cls[self] = "MT900910Parser"
        /\ Return(self, "get_debit_credit_advice", <<>>,
                  MT900910Parser_get_debit_credit_advice(fields[self]))

(***************************************************************************)
(* Inputs                                                                  *)
(***************************************************************************)

\* the segments joined with ';' between them
RECURSIVE Join(_)
Join(segs) ==
    IF segs = <<>> THEN <<>>
    ELSE IF Len(segs) = 1 THEN segs[1]
    ELSE segs[1] \o <<";">> \o Join(Tail(segs))

\* the sequences over S of length at most n
SeqsUpTo(S, n) == UNION {[1..k -> S] : k \in 0..n}

\* the most segments of a message
MaxSegs == 3

\* Field strings of the four message types: a reference with and without
\* surrounding blanks, amounts, balances with a sign that is C, D or neither,
\* an empty value, a segment without a colon and a blank segment.
Segments ==
    \* '20:REF123'
    { <<"2", "0", ":", "R", "E", "F", "1", "2", "3">>,
      \* ' 20 : REF202 '
      <<" ", "2", "0", " ", ":", " ", "R", "E", "F", "2", "0", "2", " ">>,
      \* '21:RELREF'
      <<"2", "1", ":", "R", "E", "L", "R", "E", "F">>,
      \* '32A:210101USD1000,00'
      <<"3", "2", "A", ":", "2", "1", "0", "1", "0", "1", "U", "S", "D", "1", "0", "0", "0", ",", "0", "0">>,
      \* '58A:BANKBIC'
      <<"5", "8", "A", ":", "B", "A", "N", "K", "B", "I", "C">>,
      \* '25:123456789'
      <<"2", "5", ":", "1", "2", "3", "4", "5", "6", "7", "8", "9">>,
      \* '28C:00001/001'
      <<"2", "8", "C", ":", "0", "0", "0", "0", "1", "/", "0", "0", "1">>,
      \* '60F:C210101USD1000,00'
      <<"6", "0", "F", ":", "C", "2", "1", "0", "1", "0", "1", "U", "S", "D", "1", "0", "0", "0", ",", "0", "0">>,
      \* '62F:X210131USD15,0,0'
      <<"6", "2", "F", ":", "X", "2", "1", "0", "1", "3", "1", "U", "S", "D", "1", "5", ",", "0", ",", "0">>,
      \* '61:D210101USD2000,00'
      <<"6", "1", ":", "D", "2", "1", "0", "1", "0", "1", "U", "S", "D", "2", "0", "0", "0", ",", "0", "0">>,
      <<"6", "1", ":">>,
      \* '32A:notanumber'
      <<"3", "2", "A", ":", "n", "o", "t", "a", "n", "u", "m", "b", "e", "r">>,
      \* '20REF123'
      <<"2", "0", "R", "E", "F", "1", "2", "3">>,
      <<>> }

Messages == {Join(s) : s \in SeqsUpTo(Segments, MaxSegs)}

\* the tags asked of get_field: one written twice, one of an empty value, one
\* that no segment carries
FieldArgs == {Tag20, Tag61, <<"9", "9">>}

\* the most characters of a short text
MaxLen == 7

\* Short texts over the separators, a blank and one letter: every way of
\* placing ';' and ':' around tags and values.
Alphabet == {";", ":", " ", "a"}

Texts == SeqsUpTo(Alphabet, MaxLen)

TextFieldArgs == {<<"a">>, <<"a", "a">>, <<>>}

\* 32A values: a date part, a currency part and a numeric part, each
\* well-formed, missing or malformed, and the malformed values of the
\* documentation.
DateParts ==
    { <<"2", "1", "0", "1", "0", "1">>,
      <<"9", "9", "1", "2", "3", "1">>,
      <<"2", "1", "0", "1">>,
      <<>> }

CurrencyParts ==
    { <<"U", "S", "D">>,
      <<"E", "U", "R">>,
      <<"I", "N", "F">>,
      <<>> }

NumericParts ==
    { <<"1", "0", "0", "0", ",", "0", "0">>,
      <<"5", "0", "0", "0", ",", "0", "0">>,
      <<"2", "0", "0", "0", ",", "0", "0">>,
      <<"5">>,
      <<"0", ",", "5">>,
      <<"1", "2", ",">>,
      <<>>,
      <<"1", ",", "2", ",", "3">>,
      <<"1", "e", "2">>,
      <<"-", "7">>,
      <<"X">> }

AmountValues ==
    {d \o c \o n : d \in DateParts, c \in CurrencyParts, n \in NumericParts}
    \* 'BADDATAHERE'
    \cup {<<"B", "A", "D", "D", "A", "T", "A", "H", "E", "R", "E">>,
          \* 'notanumber'
          <<"n", "o", "t", "a", "n", "u", "m", "b", "e", "r">>}

AmountMessages ==
    \* '20:REF123;32A:'
    {<<"2", "0", ":", "R", "E", "F", "1", "2", "3", ";", "3", "2", "A", ":">> \o v \o <<";">> : v \in AmountValues}
    \cup {<<>>,
          \* '20:REF123;'
          <<"2", "0", ":", "R", "E", "F", "1", "2", "3", ";">>,
          \* '32A210101USD1000,00;'
          <<"3", "2", "A", "2", "1", "0", "1", "0", "1", "U", "S", "D", "1", "0", "0", "0", ",", "0", "0", ";">>}

AmountClasses == {"MT103Parser", "MT202Parser", "MT900910Parser"}

\* The messages of the tests and the example run, and malformed ones.
PairMessages ==
    \* '20:REF123;32A:210101USD1000,00;50K:/12345678;59:/87654321;'
    { <<"2", "0", ":", "R", "E", "F", "1", "2", "3", ";", "3", "2", "A", ":", "2", "1", "0", "1", "0", "1", "U", "S", "D", "1", "0", "0", "0", ",", "0", "0", ";", "5", "0", "K", ":", "/", "1", "2", "3", "4", "5", "6", "7", "8", ";", "5", "9", ":", "/", "8", "7", "6", "5", "4", "3", "2", "1", ";">>,
      \* '20:REF202;21:RELREF;32A:210101USD5000,00;58A:BANKBIC;'
      <<"2", "0", ":", "R", "E", "F", "2", "0", "2", ";", "2", "1", ":", "R", "E", "L", "R", "E", "F", ";", "3", "2", "A", ":", "2", "1", "0", "1", "0", "1", "U", "S", "D", "5", "0", "0", "0", ",", "0", "0", ";", "5", "8", "A", ":", "B", "A", "N", "K", "B", "I", "C", ";">>,
      \* '25:123456789;28C:00001/001;60F:C210101USD1000,00;62F:C210131USD1500,00;'
      <<"2", "5", ":", "1", "2", "3", "4", "5", "6", "7", "8", "9", ";", "2", "8", "C", ":", "0", "0", "0", "0", "1", "/", "0", "0", "1", ";", "6", "0", "F", ":", "C", "2", "1", "0", "1", "0", "1", "U", "S", "D", "1", "0", "0", "0", ",", "0", "0", ";", "6", "2", "F", ":", "C", "2", "1", "0", "1", "3", "1", "U", "S", "D", "1", "5", "0", "0", ",", "0", "0", ";">>,
      \* '32A:210101USD2000,00;61:D210101USD2000,00;'
      <<"3", "2", "A", ":", "2", "1", "0", "1", "0", "1", "U", "S", "D", "2", "0", "0", "0", ",", "0", "0", ";", "6", "1", ":", "D", "2", "1", "0", "1", "0", "1", "U", "S", "D", "2", "0", "0", "0", ",", "0", "0", ";">>,
      \* '20REF123;32A:notanumber;'
      <<"2", "0", "R", "E", "F", "1", "2", "3", ";", "3", "2", "A", ":", "n", "o", "t", "a", "n", "u", "m", "b", "e", "r", ";">>,
      \* '32A:2101015;61:X;20: a ;20:b'
      <<"3", "2", "A", ":", "2", "1", "0", "1", "0", "1", "5", ";", "6", "1", ":", "X", ";", "2", "0", ":", " ", "a", " ", ";", "2", "0", ":", "b">>,
      <<>> }

(***************************************************************************)
(* Specifications                                                          *)
(***************************************************************************)

\* One parser of any class on a message of field strings; every method.
Init == Construct({"p"}, Messages, Classes)

Next ==
    \/ Call_get_field(FieldArgs)
    \/ Call_MT103Parser_get_transaction_reference
    \/ Call_MT103Parser_get_amount
    \/ Call_MT202Parser_get_transaction_reference
    \/ Call_MT202Parser_get_related_reference
    \/ Call_MT202Parser_get_amount
    \/ Call_MT202Parser_get_beneficiary_institution
    \/ Call_MT940Parser_get_account_id
    \/ Call_MT940Parser_get_statement_number
    \/ Call_MT940Parser_get_opening_balance
    \/ Call_MT940Parser_get_closing_balance
    \/ Call_MT900910Parser_get_amount
    \/ Call_MT900910Parser_get_debit_credit_advice

Spec == Init /\ [][Next]_vars

\* One parser of any class on a short text; get_field.
InitText == Construct({"p"}, Texts, Classes)

NextText == Call_get_field(TextFieldArgs)

SpecText == InitText /\ [][NextText]_vars

\* One parser of a class that has get_amount, on a message with a 32A value
\* or without the tag; get_amount.
InitAmount == Construct({"p"}, AmountMessages, AmountClasses)

NextAmount ==
    \/ Call_MT103Parser_get_amount
    \/ Call_MT202Parser_get_amount
    \/ Call_MT900910Parser_get_amount

SpecAmount == InitAmount /\ [][NextAmount]_vars

\* Two parsers, each of any class on any of the messages; every method.
InitPair == Construct({"p", "q"}, PairMessages, Classes)

SpecPair == InitPair /\ [][Next]_vars

(***************************************************************************)
(* The segments of a message, as the documentation describes them          *)
(***************************************************************************)

\* a segment that is not blank and holds a colon
IsEntrySegment(seg) == strip(seg) # <<>> /\ Contains(seg, ":")

EntrySegments(m) == SelectSeq(split(m, ";"), IsEntrySegment)

\* the text of a segment before its first colon, as written
RawTag(seg) == SubSeq(seg, 1, FirstIndex(seg, ":") - 1)

\* the same, with the surrounding whitespace removed
TrimmedTag(seg) == strip(RawTag(seg))

\* everything after the first colon, trimmed
SegmentValue(seg) == strip(SubSeq(seg, FirstIndex(seg, ":") + 1, Len(seg)))

Distinct(s) == \A i, j \in 1..Len(s) : i # j => s[i] # s[j]

Called(method) == call.method = method

\* the field map of the object of the last call
CalledFields == fields[call.obj]

Stored(tag) == CalledFields[CHOOSE i \in 1..Len(CalledFields) : CalledFields[i].key = tag].value

(***************************************************************************)
(* C2                                                                      *)
(***************************************************************************)

\* C2 as stated: when the texts before the first colon of the entry segments
\* are pairwise distinct, the field map holds one entry per entry segment, in
\* input order, whose tag is exactly that text and whose value is the trimmed
\* text after the first colon.
C2_TagIsRawText ==
    \A o \in DOMAIN fields :
        LET es == EntrySegments(message[o])
        IN  Distinct([i \in 1..Len(es) |-> RawTag(es[i])])
            => fields[o] = [i \in 1..Len(es) |->
                              [key |-> RawTag(es[i]), value |-> SegmentValue(es[i])]]

\* C2 amended: the tag of an entry is the text before the first colon with
\* its surrounding whitespace removed.  When these trimmed tags are pairwise
\* distinct the field map holds exactly one entry per entry segment, in input
\* order, with the trimmed text after the first colon as value (later colons
\* stay in it); and for every input the tags of the field map are exactly the
\* trimmed tags of the entry segments, so blank segments and segments
\* without a colon contribute nothing.
C2_TagIsTrimmedText ==
    \A o \in DOMAIN fields :
        LET es == EntrySegments(message[o])
        IN  /\ Distinct([i \in 1..Len(es) |-> TrimmedTag(es[i])])
               => fields[o] = [i \in 1..Len(es) |->
                                 [key |-> TrimmedTag(es[i]),
                                  value |-> SegmentValue(es[i])]]
            /\ {fields[o][i].key : i \in 1..Len(fields[o])}
                   = {TrimmedTag(es[i]) : i \in 1..Len(es)}

\* C2 witness: a parser built from a text with a blank segment, two entry
\* segments of distinct tags, one written with a blank before its tag, and a
\* value that holds a colon.
C2_Witness ==
    \E o \in DOMAIN fields :
        LET es == EntrySegments(message[o])
        IN  /\ Len(es) = 2
            /\ Len(split(message[o], ";")) > 2
            /\ TrimmedTag(es[1]) # TrimmedTag(es[2])
            /\ \E i \in 1..2 : RawTag(es[i]) # TrimmedTag(es[i])
            /\ \E i \in 1..2 : Contains(SegmentValue(es[i]), ":")
            /\ Len(fields[o]) = 2

(***************************************************************************)
(* C3                                                                      *)
(***************************************************************************)

\* the entry segments of m that carry tag
SegmentsOf(m, tag) == SelectSeq(EntrySegments(m), LAMBDA seg : TrimmedTag(seg) = tag)

\* C3: when the tag asked of get_field is carried by two or more entry
\* segments of the message, get_field returns the trimmed value of the last of
\* them, whatever the class of the parser.
C3_LastOccurrenceWins ==
    Called("get_field") =>
        LET ss == SegmentsOf(message[call.obj], call.arg)
        IN  Len(ss) >= 2 => call.ret = Str(SegmentValue(ss[Len(ss)]))

\* C3 witness: get_field on a tag carried twice with two different values,
\* the last one returned.
C3_Witness ==
    /\ Called("get_field")
    /\ call.arg # <<>>
    /\ cls[call.obj] = "MT940Parser"
    /\ LET ss == SegmentsOf(message[call.obj], call.arg)
       IN  /\ Len(ss) = 2
           /\ SegmentValue(ss[1]) # SegmentValue(ss[2])
           /\ call.ret = Str(SegmentValue(ss[2]))

(***************************************************************************)
(* C7                                                                      *)
(***************************************************************************)

\* C7: every tag stored in a field map is a non-empty string.
C7_TagsNonEmpty ==
    \A o \in DOMAIN fields : \A i \in 1..Len(fields[o]) : fields[o][i].key # <<>>

(***************************************************************************)
(* C1, C4, C5: get_amount                                                  *)
(***************************************************************************)

\* a comma-decimal numeric literal: digits, then optionally ',' and digits
IsCommaDecimal(s) ==
    IF Contains(s, ",")
    THEN LET i == FirstIndex(s, ",")
         IN  /\ i > 1
             /\ AllDigits(SubSeq(s, 1, i - 1))
             /\ AllDigits(SubSeq(s, i + 1, Len(s)))
    ELSE s # <<>> /\ AllDigits(s)

\* the number a comma-decimal literal denotes
CommaDecimalValue(s) ==
    IF Contains(s, ",")
    THEN LET i  == FirstIndex(s, ",")
             fp == SubSeq(s, i + 1, Len(s))
         IN  Float(ToInt(SubSeq(s, 1, i - 1) \o fp), 0 - Len(fp))
    ELSE Float(ToInt(s), 0)

\* a well-formed 32A value: a 6-digit date, a 3-letter currency code and a
\* comma-decimal numeric literal
WellFormed32A(v) ==
    /\ Len(v) > 9
    /\ AllDigits(SubSeq(v, 1, 6))
    /\ \A i \in 7..9 : IsUpper(v[i])
    /\ IsCommaDecimal(SubSeq(v, 10, Len(v)))

\* C1: get_amount on a well-formed 32A value returns the number its numeric
\* literal denotes.
C1_AmountOfWellFormed ==
    (Called("get_amount") /\ HasKey(CalledFields, Tag32A) /\ WellFormed32A(Stored(Tag32A)))
        => call.ret = CommaDecimalValue(SubSeq(Stored(Tag32A), 10, Len(Stored(Tag32A))))

\* C4: get_amount never returns a number for a 32A value that is shorter
\* than 9 characters, or whose text after the 9-character date and currency
\* prefix is not a decimal once ',' is replaced by '.'.
C4_NoNumberForMalformed ==
    (Called("get_amount") /\ HasKey(CalledFields, Tag32A))
        => LET v == Stored(Tag32A)
           IN  (Len(v) < 9 \/ float(replace(SliceFrom(v, 9), ",", ".")) = ValueError)
                   => ~IsNumber(call.ret)

\* C5 as stated: a 32A value that is present but malformed gives a decode
\* error, a result that is neither a number nor the None of an absent tag.
C5_ErrorDiffersFromAbsent ==
    (Called("get_amount") /\ HasKey(CalledFields, Tag32A) /\ ~WellFormed32A(Stored(Tag32A)))
        => (~IsNumber(call.ret) /\ call.ret # None)

\* C5 amended: get_amount has two outcomes, a number or None.  It returns
\* None when tag 32A is absent, and the same None when the tag is present
\* with an empty value or with a value whose text from index 6 on is not a
\* float literal once ',' is replaced by '.': an absent tag and a malformed
\* value are not told apart.
C5_NoneForAbsentAndMalformed ==
    Called("get_amount") =>
        /\ IsNumber(call.ret) \/ call.ret = None
        /\ ~HasKey(CalledFields, Tag32A) => call.ret = None
        /\ HasKey(CalledFields, Tag32A) =>
               LET v == Stored(Tag32A)
               IN  (v = <<>> \/ float(replace(SliceFrom(v, 6), ",", ".")) = ValueError)
                       => call.ret = None

\* C5 witness: get_amount on the present, malformed value 'BADDATAHERE'
\* returns None.
C5_Witness ==
    /\ Called("get_amount")
    /\ HasKey(CalledFields, Tag32A)
    /\ Stored(Tag32A) = <<"B", "A", "D", "D", "A", "T", "A", "H", "E", "R", "E">>
    /\ call.ret = None

(***************************************************************************)
(* C6, C8, C9: the accessors and their tags                                *)
(***************************************************************************)

\* the tag an accessor reads, as the documentation lists it
BackingTag(method, arg) ==
    CASE method = "get_field"                   -> arg
      [] method = "get_transaction_reference"   -> Tag20
      [] method = "get_related_reference"       -> Tag21
      [] method = "get_amount"                  -> Tag32A
      [] method = "get_beneficiary_institution" -> Tag58A
      [] method = "get_account_id"              -> Tag25
      [] method = "get_statement_number"        -> Tag28C
      [] method = "get_opening_balance"         -> Tag60F
      [] method = "get_closing_balance"         -> Tag62F
      [] method = "get_debit_credit_advice"     -> Tag61

CalledTag == BackingTag(call.method, call.arg)

SomeCall == call.method # "none"

\* C6: an accessor whose backing tag is absent from the field map returns
\* None, and does not raise.
C6_AbsentGivesNone ==
    (SomeCall /\ ~HasKey(CalledFields, CalledTag)) => call.ret = None

\* C6 witness: get_amount of an MT202Parser whose message holds fields but no
\* 32A returned None.
C6_Witness ==
    /\ Called("get_amount")
    /\ cls[call.obj] = "MT202Parser"
    /\ CalledFields # <<>>
    /\ ~HasKey(CalledFields, Tag32A)
    /\ call.ret = None

RawMethods ==
    {"get_account_id", "get_statement_number", "get_opening_balance",
     "get_closing_balance", "get_debit_credit_advice",
     "get_transaction_reference", "get_related_reference",
     "get_beneficiary_institution"}

\* C8: a raw-string accessor returns exactly the value text stored for its
\* tag, a string, which is the trimmed value of the last segment of the
\* message that carries the tag.
C8_RawAccessorReturnsStored ==
    (call.method \in RawMethods /\ HasKey(CalledFields, CalledTag))
        => LET ss == SegmentsOf(message[call.obj], CalledTag)
           IN  /\ call.ret = Str(Stored(CalledTag))
               /\ ss # <<>>
               /\ call.ret.str = SegmentValue(ss[Len(ss)])

\* C8 witness: get_opening_balance on '60F:C210101USD1000,00' returned the
\* string 'C210101USD1000,00'.
C8_Witness ==
    /\ Called("get_opening_balance")
    /\ call.ret = Str(<<"C", "2", "1", "0", "1", "0", "1", "U", "S", "D", "1", "0", "0", "0", ",", "0", "0">>)

BalanceMethods == {"get_opening_balance", "get_closing_balance", "get_debit_credit_advice"}

\* C9 as stated: a balance accessor gives a decoded Balance when the value
\* starts with 'C' or 'D' and its amount part is a decimal, and a BalanceError
\* otherwise.
C9_BalanceDecoded ==
    (call.method \in BalanceMethods /\ HasKey(CalledFields, CalledTag))
        => LET v == Stored(CalledTag)
           IN  IF /\ v # <<>>
                  /\ v[1] \in {"C", "D"}
                  /\ float(replace(SliceFrom(v, 10), ",", ".")) # ValueError
               THEN call.ret.kind = "Balance"
               ELSE call.ret.kind = "BalanceError"

\* C9 amended: a balance accessor returns the stored value as a string,
\* undecoded and unvalidated: also when its first character is neither 'C'
\* nor 'D', when its amount part is malformed and when it is empty.
C9_BalanceIsRawText ==
    (call.method \in BalanceMethods /\ HasKey(CalledFields, CalledTag))
        => /\ call.ret.kind = "str"
           /\ call.ret.str = Stored(CalledTag)

\* C9 witness: get_closing_balance on a value that starts with 'X' and has a
\* malformed amount returned that value.
C9_Witness ==
    /\ Called("get_closing_balance")
    /\ call.ret = Str(<<"X", "2", "1", "0", "1", "3", "1", "U", "S", "D", "1", "5", ",", "0", ",", "0">>)

(***************************************************************************)
(* C10                                                                     *)
(***************************************************************************)

\* what a method of class c returns on the field map flds
Result(c, method, arg, flds) ==
    CASE method = "get_field" -> get_field(flds, arg)
      [] c = "MT103Parser" /\ method = "get_transaction_reference" ->
             MT103Parser_get_transaction_reference(flds)
      [] c = "MT103Parser" /\ method = "get_amount" -> MT103Parser_get_amount(flds)
      [] c = "MT202Parser" /\ method = "get_transaction_reference" ->
             MT202Parser_get_transaction_reference(flds)
      [] c = "MT202Parser" /\ method = "get_related_reference" ->
             MT202Parser_get_related_reference(flds)
      [] c = "MT202Parser" /\ method = "get_amount" -> MT202Parser_get_amount(flds)
      [] c = "MT202Parser" /\ method = "get_beneficiary_institution" ->
             MT202Parser_get_beneficiary_institution(flds)
      [] c = "MT940Parser" /\ method = "get_account_id" -> MT940Parser_get_account_id(flds)
      [] c = "MT940Parser" /\ method = "get_statement_number" ->
             MT940Parser_get_statement_number(flds)
      [] c = "MT940Parser" /\ method = "get_opening_balance" ->
             MT940Parser_get_opening_balance(flds)
      [] c = "MT940Parser" /\ method = "get_closing_balance" ->
             MT940Parser_get_closing_balance(flds)
      [] c = "MT900910Parser" /\ method = "get_amount" -> MT900910Parser_get_amount(flds)
      [] c = "MT900910Parser" /\ method = "get_debit_credit_advice" ->
             MT900910Parser_get_debit_credit_advice(flds)

\* C10: a call leaves the message and the field map of every parser as they
\* were, and returns what the method returns on a parser newly built from the
\* same message: the same result at every call, whatever was called before on
\* this parser or on the other.
C10_CallsChangeNothing ==
    [][/\ \A o \in DOMAIN cls :
              /\ cls'[o] = cls[o]
              /\ message'[o] = message[o]
              /\ fields'[o] = fields[o]
       /\ call'.ret = Result(cls[call'.obj], call'.method, call'.arg,
                             parse_message(message[call'.obj]))]_vars

\* C10 witness: get_amount was called on parser q, whose 32A value is
\* malformed, and returned None; parser p was built from the same message.
C10_Witness ==
    /\ DOMAIN cls = {"p", "q"}
    /\ call.obj = "q"
    /\ Called("get_amount")
    /\ HasKey(fields["q"], Tag32A)
    /\ call.ret = None
    /\ message["p"] = message["q"]
    /\ fields["p"] = fields["q"]

====
